---- MODULE Spec2Model ----
(***************************************************************************)
(* The micro:bit serial echo / LED animation program                       *)
(* (src/microbit/src/07-uart/src/main.rs): the mainline line editor, the   *)
(* DISPLAY_CH mailbox and the RTC0 animation interrupt.                    *)
(*                                                                         *)
(* An Option<T> of the source is a sequence of length at most one:         *)
(* None is << >> and Some(v) is << v >>.                                   *)
(***************************************************************************)
EXTENDS Integers, Sequences, FiniteSets, TLC

\* ------------------------------------------------------------ constants

ENTER == 13
BACKSPACE == 8
SPACE == 32
MAX_STEP == 24
MIN_STEP == 3
\* Vec<u8, 32>: the capacity of the line buffer
CAP == 32

None == << >>
Some(v) == << v >>

BLANK_MATRIX == << <<0, 0, 0, 0, 0>>, <<0, 0, 0, 0, 0>>, <<0, 0, 0, 0, 0>>, <<0, 0, 0, 0, 0>>, <<0, 0, 0, 0, 0>> >>

\* ------------------------------------------------------------ bounds

\* bytes the serial peer may send: 'A', 'B', Backspace, Enter
Bytes == {65, 66, BACKSPACE, ENTER}
\* the byte of a long uniform run of typing: 'x'
Fill == {120}
\* Spec: how many bytes the peer sends in all
MaxRx == 2
\* SpecLine: the peer sends a script, either up to MaxFree bytes of Bytes, or
\* head \o fill \o tail: up to MaxHead bytes of Bytes, a run of 1..MaxFill
\* bytes of Fill, up to MaxTail bytes of Bytes
MaxFree == 5
MaxHead == 1
MaxTail == 1
MaxFill == 33
\* SpecEcho: the peer sends up to MaxFill fill bytes or up to MaxBack
\* Backspaces; at most MaxSeen ticks find a byte in the mailbox, and a tick
\* finds it empty only while STEP >= MAX_STEP - MaxIdle
MaxBack == 2
MaxSeen == 2
MaxIdle == 1
\* SpecRoulette: the loop of led-roulette runs MaxSteps times (two laps)
MaxSteps == 32
\* SpecGlyph: every byte, every brightness the LED matrix has
GlyphBytes == 0..255
Levels == 0..9
\* SpecIrq: the peer sends up to MaxRxIrq bytes of IrqBytes ('A')
IrqBytes == {65}
MaxRxIrq == 1

\* ------------------------------------------------------------ state

VARIABLES
    pc,          \* mainline position in the loop body
    byte,        \* main: `byte`, the byte last read
    buffer,      \* main: `buffer`, the line buffer
    wq,          \* main: bytes the current branch has still to write
    rx,          \* history: every byte read from the serial transport
    tx,          \* history: every byte written to the serial transport by the loop
    diag,        \* history: the capacity diagnostics logged over RTT
    buf0,        \* history: the buffer when the last byte was read
    tx0,         \* history: Len(tx) when the last byte was read
    DISPLAY_CH,  \* the mailbox cell
    slotTag,     \* history: index in rx of the byte DISPLAY_CH holds, 0 when empty
    pending,     \* history: indices in rx of the bytes published since the last take
    overwritten, \* history: indices in rx of the bytes overwritten in the mailbox
    seen,        \* history: indices in rx of the bytes the takes returned, in order
    STEP,        \* RTC0: static mut STEP
    CH,          \* RTC0: static mut CH
    input_ch,    \* RTC0: `input_ch` of the last tick
    brightness,  \* RTC0: `brightness` of the last tick (None before the first tick)
    image,       \* the frame latched in DISPLAY by display.show
    stepReset,   \* history: the last tick assigned MAX_STEP to STEP
    repeat,      \* history: how the last tick's input repeats an earlier strike
    latched,     \* history: the last frame display.show has written completely
    low,         \* history: the last tick started with STEP <= MIN_STEP
    panicked,    \* a panic handler has halted the program
    primask,     \* PRIMASK: interrupts are disabled (a critical section is open)
    irq,         \* NVIC: the interrupts that are pending
    active,      \* NVIC: the handlers that are running, the preempted ones first
    rpc,         \* RTC0: position in the handler
    frame,       \* RTC0: `image`, the frame the handler is about to show
    row,         \* RTC0: how many rows display.show has written
    tpc,         \* TIMER1: position in the handler
    trow,        \* TIMER1: how many rows handle_display_event has read
    shown,       \* TIMER1: the rows handle_display_event has read
    gch,         \* glyph table: the byte looked up
    gb,          \* glyph table: the brightness of the first lookup
    gb2,         \* glyph table: the brightness of the second lookup
    gimg,        \* glyph table: the result of the first lookup (None before it)
    gimg2,       \* glyph table: the result of the second lookup (None before it)
    x,           \* led-roulette main: `x`, the column of the lit cell
    y,           \* led-roulette main: `y`, the row of the lit cell
    display_matrix, \* led-roulette main: `display_matrix`
    lpc,         \* led-roulette main: position in the loop body
    steps,       \* history: how many times next_xy has been applied
    rfault       \* led-roulette main has panicked (index or arithmetic)

mainVars == << pc, byte, buffer, wq, rx, tx, diag, buf0, tx0 >>
boxVars == << DISPLAY_CH, slotTag, pending, overwritten, seen >>
animVars == << STEP, CH, input_ch, brightness, image, stepReset, repeat, latched, low >>
irqVars == << irq, active, rpc, frame, row, tpc, trow, shown >>
glyphVars == << gch, gb, gb2, gimg, gimg2 >>
rouletteVars == << x, y, display_matrix, lpc, steps, rfault >>
vars == << mainVars, boxVars, animVars, panicked, primask, irqVars, glyphVars,
          rouletteVars >>

\* ------------------------------------------------------------ helpers

Last(s) == s[Len(s)]

RECURSIVE Reverse(_)
Reverse(s) == IF s = << >> THEN << >> ELSE Append(Reverse(Tail(s)), Head(s))

Range(s) == {s[i] : i \in DOMAIN s}

\* ------------------------------------------------------------ line editor

\* mutant of push: the capacity test is off by one
pushOffByOne(buf, b) ==
    IF Len(buf) <= CAP THEN [ok |-> TRUE, buf |-> Append(buf, b)]
                       ELSE [ok |-> FALSE, buf |-> buf]

\* mutant of push: the byte is stored at the front
pushFront(buf, b) ==
    IF Len(buf) < CAP THEN [ok |-> TRUE, buf |-> <<b>> \o buf]
                      ELSE [ok |-> FALSE, buf |-> buf]

\* heapless Vec::push: Err(byte) when the vector is full
push(buf, b) ==
    IF Len(buf) < CAP THEN [ok |-> TRUE, buf |-> Append(buf, b)]
                      ELSE [ok |-> FALSE, buf |-> buf]

\* mutant of pop: the last byte is reported but not removed
popKeeps(buf) == [some |-> buf # << >>, buf |-> buf]

\* mutant of pop: an empty vector reports a byte too
popAlwaysSome(buf) ==
    [some |-> TRUE, buf |-> IF buf = << >> THEN buf ELSE SubSeq(buf, 1, Len(buf) - 1)]

\* heapless Vec::pop: None when the vector is empty
pop(buf) ==
    IF buf = << >> THEN [some |-> FALSE, buf |-> buf]
                   ELSE [some |-> TRUE, buf |-> SubSeq(buf, 1, Len(buf) - 1)]

\* mutant of EnterWrites: the reversed buffer is written after '\n', '\r'
EnterWritesAfter(buf) == <<13, 10>> \o <<10, 13>> \o Reverse(buf)

\* mutant of EnterWrites: the buffer is written in insertion order
EnterWritesForward(buf) == <<13, 10>> \o buf \o <<10, 13>>

\* the bytes the Enter branch writes: "\r\n", the buffer reversed, '\n', '\r'
EnterWrites(buf) == <<13, 10>> \o Reverse(buf) \o <<10, 13>>

\* the bytes the Backspace branch writes after a successful pop
BackspaceWrites(b) == <<b, SPACE, b>>

\* the bytes the push branch writes after a successful push
PushWrites(b) == <<b>>

\* the diagnostic of a failed push: the byte, buffer.len(), the literal 32
PushError(buf, b) == [ch |-> b, len |-> Len(buf), max |-> 32]

\* mutant of AfterFree: interrupts stay disabled after the closure
AfterFreeLeaks(before) == TRUE

\* cortex_m::interrupt::free: PRIMASK after the closure is what it was before
AfterFree(before) == before

\* mutant of Publish: a full slot keeps its byte
PublishKeepsFirst(slot, b) == IF slot = None THEN Some(b) ELSE slot

\* mutant of Publish: a Backspace is not stored in the mailbox
PublishSkipsBackspace(slot, b) == IF b = BACKSPACE THEN slot ELSE Some(b)

\* cortex_m::interrupt::free(|cs| DISPLAY_CH.borrow(cs).set(Some(byte)))
Publish(slot, b) == Some(b)

\* nb::block!(serial.read()) returns byte b
MainRead(b) ==
    /\ ~panicked
    /\ active = << >>
    /\ pc = "read"
    /\ byte' = b
    /\ rx' = Append(rx, b)
    /\ buf0' = buffer
    /\ tx0' = Len(tx)
    /\ pc' = "publish"
    /\ UNCHANGED << buffer, wq, tx, diag, boxVars, animVars, panicked, primask, irqVars, glyphVars, rouletteVars >>

\* the critical section that stores the byte in the mailbox
MainPublish ==
    /\ ~panicked
    /\ active = << >>
    /\ pc = "publish"
    /\ DISPLAY_CH' = Publish(DISPLAY_CH, byte)
    /\ primask' = AfterFree(primask)
    /\ slotTag' = Len(rx)
    /\ pending' = Append(pending, Len(rx))
    /\ overwritten' = IF DISPLAY_CH # None THEN overwritten \cup {slotTag} ELSE overwritten
    /\ pc' = "handle"
    /\ UNCHANGED << byte, buffer, wq, rx, tx, diag, buf0, tx0, seen, animVars, panicked, irqVars, glyphVars, rouletteVars >>

\* the if / else if / else on the byte, up to the first blocking write
MainHandle ==
    /\ ~panicked
    /\ active = << >>
    /\ pc = "handle"
    /\ IF byte = ENTER
         THEN /\ wq' = EnterWrites(buffer)
              /\ UNCHANGED << buffer, diag >>
         ELSE IF byte = BACKSPACE
           THEN /\ buffer' = pop(buffer).buf
                /\ wq' = IF pop(buffer).some THEN BackspaceWrites(byte) ELSE << >>
                /\ UNCHANGED diag
           ELSE /\ buffer' = push(buffer, byte).buf
                /\ wq' = IF push(buffer, byte).ok THEN PushWrites(byte) ELSE << >>
                /\ diag' = IF push(buffer, byte).ok THEN diag
                                                    ELSE Append(diag, PushError(buffer, byte))
    /\ pc' = "write"
    /\ UNCHANGED << byte, rx, tx, buf0, tx0, boxVars, animVars, panicked, primask, irqVars, glyphVars, rouletteVars >>

\* one nb::block!(serial.write(..)) returns
MainWrite ==
    /\ ~panicked
    /\ active = << >>
    /\ pc = "write"
    /\ wq # << >>
    /\ tx' = Append(tx, Head(wq))
    /\ wq' = Tail(wq)
    /\ UNCHANGED << pc, byte, buffer, rx, diag, buf0, tx0, boxVars, animVars, panicked, primask, irqVars, glyphVars, rouletteVars >>

\* the branch ends: buffer.clear() after the writes of the Enter branch
MainEndBranch ==
    /\ ~panicked
    /\ active = << >>
    /\ pc = "write"
    /\ wq = << >>
    /\ buffer' = IF byte = ENTER THEN << >> ELSE buffer
    /\ pc' = "flush"
    /\ UNCHANGED << byte, wq, rx, tx, diag, buf0, tx0, boxVars, animVars, panicked, primask, irqVars, glyphVars, rouletteVars >>

\* nb::block!(serial.flush()) returns and the loop starts over
MainFlush ==
    /\ ~panicked
    /\ active = << >>
    /\ pc = "flush"
    /\ pc' = "read"
    /\ UNCHANGED << byte, buffer, wq, rx, tx, diag, buf0, tx0, boxVars, animVars, panicked, primask, irqVars, glyphVars, rouletteVars >>

\* ------------------------------------------------------------ glyph table

\* mutant of Unknown: the all-on matrix at full brightness, whatever was requested
UnknownFull(b) ==
    << <<9, 9, 9, 9, 9>>, <<9, 9, 9, 9, 9>>, <<9, 9, 9, 9, 9>>, <<9, 9, 9, 9, 9>>, <<9, 9, 9, 9, 9>> >>

\* the `_` arm: every cell at the requested brightness
Unknown(b) ==
    << <<b, b, b, b, b>>, <<b, b, b, b, b>>, <<b, b, b, b, b>>, <<b, b, b, b, b>>, <<b, b, b, b, b>> >>

\* match char::from(ch)
glyph(c, b) ==
        CASE c = 65 -> <<<<0, b, b, b, 0>>, <<b, 0, 0, 0, b>>, <<b, b, b, b, b>>, <<b, 0, 0, 0, b>>, <<b, 0, 0, 0, b>>>>
          [] c = 97 -> <<<<b, b, b, b, 0>>, <<0, 0, 0, 0, b>>, <<0, b, b, b, b>>, <<b, 0, 0, 0, b>>, <<0, b, b, b, b>>>>
          [] c = 66 -> <<<<b, b, b, b, 0>>, <<b, 0, 0, 0, b>>, <<b, b, b, b, 0>>, <<b, 0, 0, 0, b>>, <<b, b, b, b, 0>>>>
          [] c = 98 -> <<<<b, 0, 0, 0, 0>>, <<b, b, b, b, 0>>, <<b, 0, 0, 0, b>>, <<b, 0, 0, 0, b>>, <<b, b, b, b, 0>>>>
          [] c = 67 -> <<<<0, b, b, b, b>>, <<b, 0, 0, 0, 0>>, <<b, 0, 0, 0, 0>>, <<b, 0, 0, 0, 0>>, <<0, b, b, b, b>>>>
          [] c = 99 -> <<<<0, b, b, b, 0>>, <<b, 0, 0, 0, b>>, <<b, 0, 0, 0, 0>>, <<b, 0, 0, 0, b>>, <<0, b, b, b, 0>>>>
          [] c = 68 -> <<<<b, b, b, b, 0>>, <<b, 0, 0, 0, b>>, <<b, 0, 0, 0, b>>, <<b, 0, 0, 0, b>>, <<b, b, b, b, 0>>>>
          [] c = 100 -> <<<<0, 0, 0, 0, b>>, <<0, b, b, b, b>>, <<b, 0, 0, 0, b>>, <<b, 0, 0, 0, b>>, <<0, b, b, b, b>>>>
          [] c = 69 -> <<<<b, b, b, b, b>>, <<b, 0, 0, 0, 0>>, <<b, b, b, b, b>>, <<b, 0, 0, 0, 0>>, <<b, b, b, b, b>>>>
          [] c = 101 -> <<<<0, b, b, b, 0>>, <<b, 0, 0, 0, b>>, <<b, b, b, b, b>>, <<b, 0, 0, 0, 0>>, <<0, b, b, b, b>>>>
          [] c = 70 -> <<<<b, b, b, b, b>>, <<b, 0, 0, 0, 0>>, <<b, b, b, 0, 0>>, <<b, 0, 0, 0, 0>>, <<b, 0, 0, 0, 0>>>>
          [] c = 102 -> <<<<0, b, b, b, b>>, <<b, 0, 0, 0, 0>>, <<b, b, b, 0, 0>>, <<b, 0, 0, 0, 0>>, <<b, 0, 0, 0, 0>>>>
          [] c = 71 -> <<<<0, b, b, b, b>>, <<b, 0, 0, 0, 0>>, <<b, 0, b, b, b>>, <<b, 0, 0, 0, b>>, <<0, b, b, b, b>>>>
          [] c = 103 -> <<<<0, b, b, b, 0>>, <<b, 0, 0, 0, b>>, <<0, b, b, b, b>>, <<0, 0, 0, 0, b>>, <<b, b, b, b, 0>>>>
          [] c = 72 -> <<<<b, 0, 0, 0, b>>, <<b, 0, 0, 0, b>>, <<b, b, b, b, b>>, <<b, 0, 0, 0, b>>, <<b, 0, 0, 0, b>>>>
          [] c = 104 -> <<<<b, 0, 0, 0, 0>>, <<b, b, b, b, 0>>, <<b, 0, 0, 0, b>>, <<b, 0, 0, 0, b>>, <<b, 0, 0, 0, b>>>>
          [] c = 73 -> <<<<0, b, b, b, 0>>, <<0, 0, b, 0, 0>>, <<0, 0, b, 0, 0>>, <<0, 0, b, 0, 0>>, <<0, b, b, b, 0>>>>
          [] c = 105 -> <<<<0, 0, b, 0, 0>>, <<0, 0, 0, 0, 0>>, <<0, 0, b, 0, 0>>, <<0, 0, b, 0, 0>>, <<0, 0, b, 0, 0>>>>
          [] c = 74 -> <<<<0, 0, b, b, b>>, <<0, 0, 0, 0, b>>, <<0, 0, 0, 0, b>>, <<b, 0, 0, 0, b>>, <<0, b, b, b, 0>>>>
          [] c = 106 -> <<<<0, 0, 0, 0, b>>, <<0, 0, 0, 0, b>>, <<0, 0, 0, 0, b>>, <<0, 0, 0, 0, b>>, <<b, b, b, b, 0>>>>
          [] c = 75 -> <<<<b, 0, 0, b, 0>>, <<b, 0, b, 0, 0>>, <<b, b, b, b, 0>>, <<b, 0, 0, 0, b>>, <<b, 0, 0, 0, b>>>>
          [] c = 107 -> <<<<b, 0, 0, 0, b>>, <<b, 0, 0, b, 0>>, <<b, b, b, 0, 0>>, <<b, 0, 0, b, 0>>, <<b, 0, 0, 0, b>>>>
          [] c = 76 -> <<<<b, 0, 0, 0, 0>>, <<b, 0, 0, 0, 0>>, <<b, 0, 0, 0, 0>>, <<b, 0, 0, 0, 0>>, <<b, b, b, b, b>>>>
          [] c = 108 -> <<<<b, 0, 0, 0, 0>>, <<b, 0, 0, 0, 0>>, <<b, 0, 0, 0, 0>>, <<b, 0, 0, 0, 0>>, <<0, b, b, b, b>>>>
          [] c = 77 -> <<<<b, 0, 0, 0, b>>, <<b, b, 0, b, b>>, <<b, 0, b, 0, b>>, <<b, 0, 0, 0, b>>, <<b, 0, 0, 0, b>>>>
          [] c = 109 -> <<<<0, b, 0, b, 0>>, <<b, 0, b, 0, b>>, <<b, 0, b, 0, b>>, <<b, 0, b, 0, b>>, <<b, 0, b, 0, b>>>>
          [] c = 78 -> <<<<b, b, 0, 0, b>>, <<b, 0, b, 0, b>>, <<b, 0, b, 0, b>>, <<b, 0, b, 0, b>>, <<b, 0, 0, b, b>>>>
          [] c = 110 -> <<<<b, b, b, b, 0>>, <<b, 0, 0, 0, b>>, <<b, 0, 0, 0, b>>, <<b, 0, 0, 0, b>>, <<b, 0, 0, 0, b>>>>
          [] c = 79 -> <<<<0, b, b, b, 0>>, <<b, 0, 0, 0, b>>, <<b, 0, 0, 0, b>>, <<b, 0, 0, 0, b>>, <<0, b, b, b, 0>>>>
          [] c = 111 -> <<<<0, 0, 0, 0, 0>>, <<0, b, b, 0, 0>>, <<b, 0, 0, b, 0>>, <<b, 0, 0, b, 0>>, <<0, b, b, 0, 0>>>>
          [] c = 80 -> <<<<b, b, b, b, 0>>, <<b, 0, 0, 0, b>>, <<b, b, b, b, 0>>, <<b, 0, 0, 0, 0>>, <<b, 0, 0, 0, 0>>>>
          [] c = 112 -> <<<<b, b, b, b, 0>>, <<b, 0, 0, 0, b>>, <<b, 0, 0, 0, b>>, <<b, b, b, b, 0>>, <<b, 0, 0, 0, 0>>>>
          [] c = 81 -> <<<<0, b, b, 0, 0>>, <<b, 0, 0, b, 0>>, <<b, 0, 0, b, 0>>, <<b, 0, 0, b, 0>>, <<0, b, b, b, b>>>>
          [] c = 113 -> <<<<0, b, b, b, b>>, <<b, 0, 0, 0, b>>, <<b, 0, 0, 0, b>>, <<0, b, b, b, b>>, <<0, 0, 0, 0, b>>>>
          [] c = 82 -> <<<<b, b, b, b, 0>>, <<b, 0, 0, 0, b>>, <<b, b, b, b, 0>>, <<b, 0, 0, b, 0>>, <<b, 0, 0, 0, b>>>>
          [] c = 114 -> <<<<b, 0, b, b, 0>>, <<b, b, 0, 0, b>>, <<b, 0, 0, 0, 0>>, <<b, 0, 0, 0, 0>>, <<b, 0, 0, 0, 0>>>>
          [] c = 83 -> <<<<0, b, b, b, b>>, <<b, 0, 0, 0, 0>>, <<0, b, b, b, 0>>, <<0, 0, 0, 0, b>>, <<b, b, b, b, 0>>>>
          [] c = 115 -> <<<<0, 0, b, b, 0>>, <<0, b, 0, 0, 0>>, <<0, 0, b, 0, 0>>, <<0, 0, 0, b, 0>>, <<0, b, b, 0, 0>>>>
          [] c = 84 -> <<<<b, b, b, b, b>>, <<0, 0, b, 0, 0>>, <<0, 0, b, 0, 0>>, <<0, 0, b, 0, 0>>, <<0, 0, b, 0, 0>>>>
          [] c = 116 -> <<<<b, 0, 0, 0, 0>>, <<b, b, b, 0, 0>>, <<b, 0, 0, 0, 0>>, <<b, 0, 0, 0, b>>, <<0, b, b, b, 0>>>>
          [] c = 85 -> <<<<b, 0, 0, 0, b>>, <<b, 0, 0, 0, b>>, <<b, 0, 0, 0, b>>, <<b, 0, 0, 0, b>>, <<0, b, b, b, 0>>>>
          [] c = 117 -> <<<<b, 0, 0, 0, b>>, <<b, 0, 0, 0, b>>, <<b, 0, 0, 0, b>>, <<b, 0, 0, b, b>>, <<0, b, b, 0, b>>>>
          [] c = 86 -> <<<<b, 0, 0, 0, b>>, <<b, 0, 0, 0, b>>, <<0, b, 0, b, 0>>, <<0, b, 0, b, 0>>, <<0, 0, b, 0, 0>>>>
          [] c = 118 -> <<<<0, 0, 0, 0, 0>>, <<b, 0, 0, 0, b>>, <<0, b, 0, b, 0>>, <<0, 0, b, 0, 0>>, <<0, 0, 0, 0, 0>>>>
          [] c = 87 -> <<<<b, 0, 0, 0, b>>, <<b, 0, 0, 0, b>>, <<b, 0, b, 0, b>>, <<b, b, 0, b, b>>, <<b, 0, 0, 0, b>>>>
          [] c = 119 -> <<<<b, 0, 0, 0, b>>, <<b, 0, b, 0, b>>, <<b, 0, b, 0, b>>, <<b, 0, b, 0, b>>, <<0, b, 0, b, 0>>>>
          [] c = 88 -> <<<<b, 0, 0, 0, b>>, <<0, b, 0, b, 0>>, <<0, 0, b, 0, 0>>, <<0, b, 0, b, 0>>, <<b, 0, 0, 0, b>>>>
          [] c = 120 -> <<<<b, 0, 0, 0, b>>, <<b, 0, 0, 0, b>>, <<0, b, b, b, 0>>, <<b, 0, 0, 0, b>>, <<b, 0, 0, 0, b>>>>
          [] c = 89 -> <<<<b, 0, 0, 0, b>>, <<b, 0, 0, 0, b>>, <<0, b, b, b, 0>>, <<0, 0, b, 0, 0>>, <<0, 0, b, 0, 0>>>>
          [] c = 121 -> <<<<b, 0, 0, 0, b>>, <<b, 0, 0, 0, b>>, <<0, b, b, b, b>>, <<0, 0, 0, 0, b>>, <<b, b, b, b, 0>>>>
          [] c = 90 -> <<<<b, b, b, b, b>>, <<0, 0, 0, 0, b>>, <<0, b, b, b, 0>>, <<b, 0, 0, 0, 0>>, <<b, b, b, b, b>>>>
          [] c = 122 -> <<<<b, b, b, b, b>>, <<0, 0, 0, b, 0>>, <<0, 0, b, 0, 0>>, <<0, b, 0, 0, 0>>, <<b, b, b, b, b>>>>
          [] c = 48 -> <<<<0, b, b, b, 0>>, <<b, 0, 0, b, b>>, <<b, 0, b, 0, b>>, <<b, b, 0, 0, b>>, <<0, b, b, b, 0>>>>
          [] c = 49 -> <<<<0, 0, b, 0, 0>>, <<0, b, b, 0, 0>>, <<0, 0, b, 0, 0>>, <<0, 0, b, 0, 0>>, <<0, b, b, b, 0>>>>
          [] c = 50 -> <<<<b, b, b, b, 0>>, <<0, 0, 0, 0, b>>, <<0, b, b, b, 0>>, <<b, 0, 0, 0, 0>>, <<b, b, b, b, b>>>>
          [] c = 51 -> <<<<b, b, b, b, 0>>, <<0, 0, 0, 0, b>>, <<0, 0, b, b, 0>>, <<0, 0, 0, 0, b>>, <<b, b, b, b, b>>>>
          [] c = 52 -> <<<<b, 0, 0, 0, b>>, <<b, 0, 0, 0, b>>, <<0, b, b, b, b>>, <<0, 0, 0, 0, b>>, <<0, 0, 0, 0, b>>>>
          [] c = 53 -> <<<<b, b, b, b, b>>, <<b, 0, 0, 0, 0>>, <<b, b, b, b, 0>>, <<0, 0, 0, 0, b>>, <<b, b, b, b, 0>>>>
          [] c = 54 -> <<<<0, b, b, b, b>>, <<b, 0, 0, 0, 0>>, <<b, b, b, b, 0>>, <<b, 0, 0, 0, b>>, <<0, b, b, b, 0>>>>
          [] c = 55 -> <<<<b, b, b, b, b>>, <<0, 0, 0, 0, b>>, <<0, 0, 0, b, 0>>, <<0, 0, 0, b, 0>>, <<0, 0, 0, b, 0>>>>
          [] c = 56 -> <<<<0, b, b, b, 0>>, <<b, 0, 0, 0, b>>, <<0, b, b, b, 0>>, <<b, 0, 0, 0, b>>, <<0, b, b, b, 0>>>>
          [] c = 57 -> <<<<0, b, b, b, 0>>, <<b, 0, 0, 0, b>>, <<0, b, b, b, b>>, <<0, 0, 0, 0, b>>, <<0, 0, b, b, 0>>>>
          [] c = ENTER -> <<<<0, 0, 0, 0, b>>, <<0, 0, 0, 0, b>>, <<0, b, 0, 0, b>>, <<b, b, b, b, b>>, <<0, b, 0, 0, 0>>>>
          [] c = BACKSPACE -> <<<<0, 0, 0, 0, 0>>, <<0, b, 0, 0, 0>>, <<b, b, b, b, b>>, <<0, b, 0, 0, 0>>, <<0, 0, 0, 0, 0>>>>
          [] c = SPACE -> BLANK_MATRIX
          [] c = 27 -> BLANK_MATRIX
          [] OTHER -> Unknown(b)

\* mutant of ch_to_matrix: `let b = 9`, the requested brightness is ignored
ch_to_matrixFull(ch, b) == IF ch = None THEN BLANK_MATRIX ELSE glyph(ch[1], 9)

ch_to_matrix(ch, b) == IF ch = None THEN BLANK_MATRIX ELSE glyph(ch[1], b)

\* ------------------------------------------------------------ animation driver

\* mutant of Take: DISPLAY_CH.set(None) is left out
TakeNoClear(slot, step) ==
    IF slot # None THEN [input_ch |-> slot, step |-> MAX_STEP, slot |-> slot]
                   ELSE [input_ch |-> None, step |-> step, slot |-> slot]

\* mutant of Take: the slot is cleared but input_ch is not assigned
TakeDrops(slot, step) ==
    IF slot # None THEN [input_ch |-> None, step |-> MAX_STEP, slot |-> None]
                   ELSE [input_ch |-> None, step |-> step, slot |-> slot]

\* mutant of Take: a taken byte does not restart STEP
TakeNoRestart(slot, step) ==
    IF slot # None THEN [input_ch |-> slot, step |-> step, slot |-> None]
                   ELSE [input_ch |-> None, step |-> step, slot |-> slot]

\* the critical section that reads and clears the mailbox (and restarts STEP)
Take(slot, step) ==
    IF slot # None THEN [input_ch |-> slot, step |-> MAX_STEP, slot |-> None]
                   ELSE [input_ch |-> None, step |-> step, slot |-> slot]

\* mutant of Expire: the step is restarted but the character is kept
ExpireKeeps(step, ch) ==
    IF step <= MIN_STEP THEN [step |-> MAX_STEP, ch |-> ch, reset |-> TRUE]
                        ELSE [step |-> step, ch |-> ch, reset |-> FALSE]

\* mutant of Expire: the test is *STEP < MIN_STEP
ExpireLate(step, ch) ==
    IF step < MIN_STEP THEN [step |-> MAX_STEP, ch |-> None, reset |-> TRUE]
                       ELSE [step |-> step, ch |-> ch, reset |-> FALSE]

\* mutant of Expire: the step is never restarted by the expiry test
ExpireNever(step, ch) == [step |-> step, ch |-> ch, reset |-> FALSE]

\* if *STEP <= MIN_STEP { *STEP = MAX_STEP; *CH = None; }
Expire(step, ch) ==
    IF step <= MIN_STEP THEN [step |-> MAX_STEP, ch |-> None, reset |-> TRUE]
                        ELSE [step |-> step, ch |-> ch, reset |-> FALSE]

\* mutant of Brightness: the ramp is computed as 9 - *STEP
BrightnessInverted(step) ==
    CASE step \in 0..8 -> 9 - step
      [] step \in 9..MAX_STEP -> 9
      [] OTHER -> -1

\* mutant of Brightness: no ramp, full brightness at every step
BrightnessFlat(step) ==
    CASE step \in 0..MAX_STEP -> 9
      [] OTHER -> -1

\* the match on *STEP; -1 stands for the panic of unreachable!()
Brightness(step) ==
    CASE step \in 0..8 -> 9 - (9 - step)
      [] step \in 9..MAX_STEP -> 9
      [] OTHER -> -1

\* mutant of Select: a repeated character is rendered, not blanked
SelectNoBlank(input, ch, b) ==
    LET ch2 == IF input # None THEN input ELSE ch
    IN [image |-> ch_to_matrix(ch2, b), ch |-> ch2]

\* mutant of Select: a new character is rendered but not remembered
SelectForgets(input, ch, b) ==
    IF input = ch THEN [image |-> BLANK_MATRIX, ch |-> ch]
    ELSE LET ch2 == IF input # None THEN input ELSE ch
         IN [image |-> ch_to_matrix(ch2, b), ch |-> ch]

\* the `image` block: the frame to latch and the remembered character
Select(input, ch, b) ==
    IF input = ch THEN [image |-> BLANK_MATRIX, ch |-> ch]
    ELSE LET ch2 == IF input # None THEN input ELSE ch
         IN [image |-> ch_to_matrix(ch2, b), ch |-> ch2]

\* how the byte a tick is about to take repeats an earlier strike:
\* "remembered" when it equals the remembered character, "pending" when the
\* strike before it was the same and was never taken, "none" otherwise
Strike ==
    IF DISPLAY_CH # None /\ DISPLAY_CH = CH THEN "remembered"
    ELSE IF Len(pending) >= 2 /\ rx[pending[Len(pending)]] = rx[pending[Len(pending) - 1]]
      THEN "pending"
      ELSE "none"

\* one run of the RTC0 handler; `wraps` tells whether the build lets the u8
\* subtraction `*STEP -= 1` wrap (overflow checks off) or panics on it
RTC0(wraps) ==
    /\ ~panicked
    /\ ~primask
    /\ active = << >>
    /\ LET t == Take(DISPLAY_CH, STEP)
           e == Expire(t.step, CH)
           b == Brightness(e.step)
           s == Select(t.input_ch, e.ch, b)
       IN /\ DISPLAY_CH' = t.slot
          /\ input_ch' = t.input_ch
          /\ seen' = IF t.input_ch # None THEN Append(seen, slotTag) ELSE seen
          /\ slotTag' = IF t.slot = None THEN 0 ELSE slotTag
          /\ pending' = << >>
          /\ repeat' = Strike
          /\ stepReset' = (t.input_ch # None \/ e.reset)
          /\ low' = (STEP <= MIN_STEP)
          /\ IF b = -1
               THEN /\ STEP' = e.step
                    /\ CH' = e.ch
                    /\ panicked' = TRUE
                    /\ UNCHANGED << brightness, image, latched >>
               ELSE /\ brightness' = Some(b)
                    /\ CH' = s.ch
                    /\ IF e.step = 0 /\ ~wraps
                         THEN /\ panicked' = TRUE
                              /\ UNCHANGED << STEP, image, latched >>
                         ELSE /\ STEP' = (e.step - 1) % 256
                              /\ image' = s.image
                              /\ latched' = s.image
                              /\ UNCHANGED panicked
    /\ UNCHANGED << mainVars, overwritten, primask, irqVars, glyphVars, rouletteVars >>

\* ------------------------------------------------------------ interrupts

\* board.NVIC.set_priority(pac::Interrupt::RTC0, 64) and (TIMER1, 128); on
\* Cortex-M the lower value is the more urgent priority
Priority(i) == IF i = "RTC0" THEN 64 ELSE 128

\* the handler that is executing
Top == active[Len(active)]

Running(i) == ~panicked /\ active # << >> /\ Top = i

\* the NVIC starts handler i: it is pending, interrupts are enabled, it is
\* more urgent than the handler that is executing and no pending one is more urgent
CanDispatch(i) ==
    /\ ~panicked
    /\ ~primask
    /\ i \in irq
    /\ i \notin Range(active)
    /\ IF active = << >> THEN TRUE ELSE Priority(i) < Priority(Top)
    /\ \A j \in irq : Priority(i) <= Priority(j)

\* the RTC tick event or the TIMER1 compare event sets the pending bit
Raise(i) ==
    /\ ~panicked
    /\ i \notin irq
    /\ irq' = irq \cup {i}
    /\ UNCHANGED << mainVars, boxVars, animVars, panicked, primask, active, rpc, frame,
                    row, tpc, trow, shown, glyphVars, rouletteVars >>

\* PRIMASK inside the critical section around display.show
ShowMask == TRUE

\* mutant of TimerMask: handle_display_event runs with interrupts enabled
TimerUnmasked == FALSE

\* PRIMASK inside the critical section around handle_display_event
TimerMask == TRUE

RtcEnter ==
    /\ CanDispatch("RTC0")
    /\ irq' = irq \ {"RTC0"}
    /\ active' = Append(active, "RTC0")
    /\ rpc' = "reset"
    /\ UNCHANGED << mainVars, boxVars, animVars, panicked, primask, frame, row, tpc, trow,
                    shown, glyphVars, rouletteVars >>

\* the critical section around rtc.reset_event
RtcReset ==
    /\ Running("RTC0")
    /\ rpc = "reset"
    /\ rpc' = "take"
    /\ primask' = AfterFree(primask)
    /\ UNCHANGED << mainVars, boxVars, animVars, panicked, irq, active, frame, row, tpc,
                    trow, shown, glyphVars, rouletteVars >>

\* the critical section that reads and clears the mailbox
RtcTake ==
    /\ Running("RTC0")
    /\ rpc = "take"
    /\ LET t == Take(DISPLAY_CH, STEP)
       IN /\ DISPLAY_CH' = t.slot
          /\ input_ch' = t.input_ch
          /\ STEP' = t.step
          /\ seen' = IF t.input_ch # None THEN Append(seen, slotTag) ELSE seen
          /\ slotTag' = IF t.slot = None THEN 0 ELSE slotTag
          /\ pending' = << >>
          /\ repeat' = Strike
          /\ stepReset' = (t.input_ch # None)
          /\ low' = (STEP <= MIN_STEP)
    /\ primask' = AfterFree(primask)
    /\ rpc' = "compute"
    /\ UNCHANGED << mainVars, overwritten, CH, brightness, image, latched, panicked, irq,
                    active, frame, row, tpc, trow, shown, glyphVars, rouletteVars >>

\* from the expiry test to `*STEP -= 1`
RtcCompute(wraps) ==
    /\ Running("RTC0")
    /\ rpc = "compute"
    /\ LET e == Expire(STEP, CH)
           b == Brightness(e.step)
           s == Select(input_ch, e.ch, b)
       IN /\ stepReset' = (stepReset \/ e.reset)
          /\ IF b = -1
               THEN /\ STEP' = e.step
                    /\ CH' = e.ch
                    /\ panicked' = TRUE
                    /\ UNCHANGED << brightness, frame, rpc >>
               ELSE /\ brightness' = Some(b)
                    /\ CH' = s.ch
                    /\ frame' = s.image
                    /\ IF e.step = 0 /\ ~wraps
                         THEN /\ panicked' = TRUE
                              /\ UNCHANGED << STEP, rpc >>
                         ELSE /\ STEP' = (e.step - 1) % 256
                              /\ rpc' = "show"
                              /\ UNCHANGED panicked
    /\ UNCHANGED << mainVars, boxVars, input_ch, image, repeat, latched, low, primask, irq,
                    active, row, tpc, trow, shown, glyphVars, rouletteVars >>

\* the critical section around display.show opens
RtcShowBegin ==
    /\ Running("RTC0")
    /\ rpc = "show"
    /\ primask' = ShowMask
    /\ row' = 0
    /\ rpc' = "write"
    /\ UNCHANGED << mainVars, boxVars, animVars, panicked, irq, active, frame, tpc, trow,
                    shown, glyphVars, rouletteVars >>

\* display.show copies one row of the frame
RtcShowRow ==
    /\ Running("RTC0")
    /\ rpc = "write"
    /\ row < 5
    /\ image' = [image EXCEPT ![row + 1] = frame[row + 1]]
    /\ row' = row + 1
    /\ UNCHANGED << mainVars, boxVars, STEP, CH, input_ch, brightness, stepReset, repeat,
                    latched, low, panicked, primask, irq, active, rpc, frame, tpc, trow, shown,
                    glyphVars, rouletteVars >>

\* display.show returns and the critical section closes
RtcShowEnd ==
    /\ Running("RTC0")
    /\ rpc = "write"
    /\ row = 5
    /\ latched' = frame
    /\ primask' = AfterFree(FALSE)
    /\ row' = 0
    /\ rpc' = "ret"
    /\ UNCHANGED << mainVars, boxVars, STEP, CH, input_ch, brightness, image, stepReset,
                    repeat, low, panicked, irq, active, frame, tpc, trow, shown,
                    glyphVars, rouletteVars >>

RtcReturn ==
    /\ Running("RTC0")
    /\ rpc = "ret"
    /\ active' = SubSeq(active, 1, Len(active) - 1)
    /\ rpc' = "idle"
    /\ UNCHANGED << mainVars, boxVars, animVars, panicked, primask, irq, frame, row, tpc,
                    trow, shown, glyphVars, rouletteVars >>

TimerEnter ==
    /\ CanDispatch("TIMER1")
    /\ irq' = irq \ {"TIMER1"}
    /\ active' = Append(active, "TIMER1")
    /\ tpc' = "enter"
    /\ UNCHANGED << mainVars, boxVars, animVars, panicked, primask, rpc, frame, row, trow,
                    shown, glyphVars, rouletteVars >>

\* the critical section around handle_display_event opens
TimerBegin ==
    /\ Running("TIMER1")
    /\ tpc = "enter"
    /\ primask' = TimerMask
    /\ trow' = 0
    /\ tpc' = "read"
    /\ UNCHANGED << mainVars, boxVars, animVars, panicked, irq, active, rpc, frame, row,
                    shown, glyphVars, rouletteVars >>

\* handle_display_event reads one row of the latched frame
TimerRow ==
    /\ Running("TIMER1")
    /\ tpc = "read"
    /\ trow < 5
    /\ shown' = [shown EXCEPT ![trow + 1] = image[trow + 1]]
    /\ trow' = trow + 1
    /\ UNCHANGED << mainVars, boxVars, animVars, panicked, primask, irq, active, rpc,
                    frame, row, tpc, glyphVars, rouletteVars >>

\* handle_display_event returns and the critical section closes
TimerEnd ==
    /\ Running("TIMER1")
    /\ tpc = "read"
    /\ trow = 5
    /\ primask' = AfterFree(FALSE)
    /\ trow' = 0
    /\ tpc' = "ret"
    /\ UNCHANGED << mainVars, boxVars, animVars, panicked, irq, active, rpc, frame, row,
                    shown, glyphVars, rouletteVars >>

TimerReturn ==
    /\ Running("TIMER1")
    /\ tpc = "ret"
    /\ active' = SubSeq(active, 1, Len(active) - 1)
    /\ tpc' = "idle"
    /\ UNCHANGED << mainVars, boxVars, animVars, panicked, primask, irq, frame, row, rpc,
                    trow, shown, glyphVars, rouletteVars >>

\* ------------------------------------------------------------ led-roulette

\* mutant of next_xy: the top row runs one cell too far (`x <= 4`)
next_xyOvershoot(cx, cy) ==
    IF cy = 0 THEN (IF cx <= 4 THEN << cx + 1, cy >> ELSE << cx, cy + 1 >>)
    ELSE IF cx = 4 THEN (IF cy < 4 THEN << cx, cy + 1 >> ELSE << cx - 1, cy >>)
    ELSE IF cy = 4 THEN (IF cx > 0 THEN << cx - 1, cy >> ELSE << cx, cy - 1 >>)
    ELSE IF cx = 0 THEN (IF cy > 0 THEN << cx, cy - 1 >> ELSE << cx + 1, cy >>)
    ELSE << 0, 0 >>

\* next_xy, in unbounded integers: a negative component is a usize underflow
next_xy(cx, cy) ==
    IF cy = 0 THEN (IF cx < 4 THEN << cx + 1, cy >> ELSE << cx, cy + 1 >>)
    ELSE IF cx = 4 THEN (IF cy < 4 THEN << cx, cy + 1 >> ELSE << cx - 1, cy >>)
    ELSE IF cy = 4 THEN (IF cx > 0 THEN << cx - 1, cy >> ELSE << cx, cy - 1 >>)
    ELSE IF cx = 0 THEN (IF cy > 0 THEN << cx, cy - 1 >> ELSE << cx + 1, cy >>)
    ELSE << 0, 0 >>

InGrid(cx, cy) == cx \in 0..4 /\ cy \in 0..4

\* display_matrix[y][x] = 1; an index outside the array panics
RouletteLight ==
    /\ ~rfault
    /\ lpc = "light"
    /\ IF InGrid(x, y)
         THEN /\ display_matrix' = [display_matrix EXCEPT ![y + 1][x + 1] = 1]
              /\ lpc' = "show"
              /\ UNCHANGED rfault
         ELSE /\ rfault' = TRUE
              /\ UNCHANGED << display_matrix, lpc >>
    /\ UNCHANGED << mainVars, boxVars, animVars, panicked, primask, irqVars, glyphVars,
                    x, y, steps >>

\* display.show(&mut timer, display_matrix, 30)
RouletteShow ==
    /\ ~rfault
    /\ lpc = "show"
    /\ lpc' = "clear"
    /\ UNCHANGED << mainVars, boxVars, animVars, panicked, primask, irqVars, glyphVars,
                    x, y, display_matrix, steps, rfault >>

\* display_matrix[y][x] = 0
RouletteClear ==
    /\ ~rfault
    /\ lpc = "clear"
    /\ display_matrix' = [display_matrix EXCEPT ![y + 1][x + 1] = 0]
    /\ lpc' = "next"
    /\ UNCHANGED << mainVars, boxVars, animVars, panicked, primask, irqVars, glyphVars,
                    x, y, steps, rfault >>

\* (x, y) = next_xy(x, y); `wraps` tells whether the build lets a usize
\* subtraction wrap (overflow checks off) or panics on it; a wrapped value is
\* kept as its residue -1 (usize::MAX), which is outside the grid
RouletteNext(wraps) ==
    /\ ~rfault
    /\ lpc = "next"
    /\ steps < MaxSteps
    /\ LET n == next_xy(x, y)
       IN IF (n[1] < 0 \/ n[2] < 0) /\ ~wraps
            THEN /\ rfault' = TRUE
                 /\ UNCHANGED << x, y, lpc, steps >>
            ELSE /\ x' = n[1]
                 /\ y' = n[2]
                 /\ lpc' = "light"
                 /\ steps' = steps + 1
                 /\ UNCHANGED rfault
    /\ UNCHANGED << mainVars, boxVars, animVars, panicked, primask, irqVars, glyphVars,
                    display_matrix >>

\* ------------------------------------------------------------ specifications

InitProgram ==
    /\ pc = "read"
    /\ byte = 0
    /\ buffer = << >>
    /\ wq = << >>
    /\ rx = << >>
    /\ tx = << >>
    /\ diag = << >>
    /\ buf0 = << >>
    /\ tx0 = 0
    /\ DISPLAY_CH = None
    /\ slotTag = 0
    /\ pending = << >>
    /\ overwritten = {}
    /\ seen = << >>
    /\ STEP = MAX_STEP
    /\ CH = None
    /\ input_ch = None
    /\ brightness = None
    /\ image = BLANK_MATRIX
    /\ stepReset = FALSE
    /\ repeat = "none"
    /\ latched = BLANK_MATRIX
    /\ low = FALSE
    /\ panicked = FALSE
    /\ primask = FALSE
    /\ irq = {}
    /\ active = << >>
    /\ rpc = "idle"
    /\ frame = BLANK_MATRIX
    /\ row = 0
    /\ tpc = "idle"
    /\ trow = 0
    /\ shown = BLANK_MATRIX

\* no glyph lookup is under way
InitGlyphIdle ==
    /\ gch = 0
    /\ gb = 0
    /\ gb2 = 0
    /\ gimg = None
    /\ gimg2 = None

\* led-roulette main before its loop
InitRoulette ==
    /\ x = 0
    /\ y = 0
    /\ display_matrix = BLANK_MATRIX
    /\ lpc = "light"
    /\ steps = 0
    /\ rfault = FALSE

Init == InitProgram /\ InitGlyphIdle /\ InitRoulette

\* the mainline between two blocking points
MainStep == MainPublish \/ MainHandle \/ MainWrite \/ MainEndBranch \/ MainFlush

\* the whole program: the peer sends up to MaxRx bytes, RTC0 ticks at any time
Recv == \E b \in Bytes : Len(rx) < MaxRx /\ MainRead(b)

Tick == \E wraps \in BOOLEAN : RTC0(wraps)

Next == Recv \/ MainStep \/ Tick

Spec == Init /\ [][Next]_vars

\* the RTC fires at 16 Hz and the NVIC serves it whenever interrupts are
\* enabled; the mainline may stay blocked on the serial port for ever
FairSpec == Spec /\ WF_vars(Tick)

\* the glyph table alone: ch_to_matrix is called twice on one byte of
\* GlyphBytes, at two brightness levels of Levels
Render ==
    /\ gimg = None
    /\ gimg' = Some(ch_to_matrix(Some(gch), gb))
    /\ UNCHANGED << mainVars, boxVars, animVars, panicked, primask, irqVars, gch, gb, gb2, gimg2,
                    rouletteVars >>

RenderAgain ==
    /\ gimg2 = None
    /\ gimg2' = Some(ch_to_matrix(Some(gch), gb2))
    /\ UNCHANGED << mainVars, boxVars, animVars, panicked, primask, irqVars, gch, gb, gb2, gimg,
                    rouletteVars >>

InitGlyph ==
    /\ InitProgram
    /\ InitRoulette
    /\ gch \in GlyphBytes
    /\ gb \in Levels
    /\ gb2 \in Levels
    /\ gimg = None
    /\ gimg2 = None

NextGlyph == Render \/ RenderAgain

SpecGlyph == InitGlyph /\ [][NextGlyph]_vars

\* led-roulette alone
NextRoulette ==
    \/ RouletteLight \/ RouletteShow \/ RouletteClear
    \/ \E wraps \in BOOLEAN : RouletteNext(wraps)

SpecRoulette == Init /\ [][NextRoulette]_vars

\* the scripts of SpecLine
NFill(s) == Cardinality({i \in DOMAIN s : s[i] \in Fill})

TailLen(s) == Len(s) - (CHOOSE i \in 0..Len(s) : (i = 0 \/ s[i] \in Fill) /\ \A j \in (i + 1)..Len(s) : s[j] \notin Fill)

CanFill(s) ==
    /\ NFill(s) < MaxFill
    /\ IF NFill(s) = 0 THEN Len(s) <= MaxHead ELSE s[Len(s)] \in Fill

CanFree(s) == IF NFill(s) = 0 THEN Len(s) < MaxFree ELSE TailLen(s) < MaxTail

RecvLine ==
    \/ \E b \in Bytes : CanFree(rx) /\ MainRead(b)
    \/ \E b \in Fill : CanFill(rx) /\ MainRead(b)

\* the mainline alone: the line editor reads nothing the interrupts write
NextLine == RecvLine \/ MainStep

SpecLine == Init /\ [][NextLine]_vars

\* main, RTC0 and TIMER1 with the handlers step by step: the peer sends up to
\* MaxRxIrq bytes of IrqBytes, the two events fire at any time
RecvIrq == \E b \in IrqBytes : Len(rx) < MaxRxIrq /\ MainRead(b)

Events == \E i \in {"RTC0", "TIMER1"} : Raise(i)

RtcStep ==
    \/ RtcEnter \/ RtcReset \/ RtcTake \/ (\E wraps \in BOOLEAN : RtcCompute(wraps))
    \/ RtcShowBegin \/ RtcShowRow \/ RtcShowEnd \/ RtcReturn

TimerStep == TimerEnter \/ TimerBegin \/ TimerRow \/ TimerEnd \/ TimerReturn

NextIrq == RecvIrq \/ MainStep \/ Events \/ RtcStep \/ TimerStep

SpecIrq == Init /\ [][NextIrq]_vars

\* the mainline filling the buffer past its capacity, or erasing an empty
\* buffer, with RTC0 ticking at any time
RecvEcho ==
    \/ \E b \in Fill : NFill(rx) = Len(rx) /\ Len(rx) < MaxFill /\ MainRead(b)
    \/ (\A i \in DOMAIN rx : rx[i] = BACKSPACE) /\ Len(rx) < MaxBack /\ MainRead(BACKSPACE)

TickEcho ==
    /\ Len(seen) < MaxSeen
    /\ DISPLAY_CH # None \/ STEP >= MAX_STEP - MaxIdle
    /\ Tick

NextEcho == RecvEcho \/ MainStep \/ TickEcho

SpecEcho == Init /\ [][NextEcho]_vars

\* ------------------------------------------------------------ claims: mailbox

\* how many bytes have been published so far
Published == IF pc = "publish" THEN Len(rx) - 1 ELSE Len(rx)

\* how many takes returned the byte rx[i]
Observed(i) == Cardinality({k \in DOMAIN seen : seen[k] = i})

\* C1: the mailbox holds at most one byte; a tick that follows one or more
\* publishes takes the last byte published, and a byte overwritten in the
\* mailbox is never returned by any take
C1_LastWriteWins ==
    /\ [](Len(DISPLAY_CH) <= 1)
    /\ [](\A i \in overwritten : Observed(i) = 0)
    /\ [][Tick /\ pending # << >> => input_ch' = Some(rx[Last(pending)])]_vars

\* two different bytes were published between two ticks and the tick took the second
C1_Witness ==
    /\ Len(rx) = 2
    /\ rx[1] # rx[2]
    /\ overwritten = {1}
    /\ seen = <<2>>
    /\ input_ch = Some(rx[2])

\* C2 as stated: a tick takes at most one byte, and every published byte that
\* is no longer in the mailbox has been returned by exactly one take
C2_ExactlyOnce_Original ==
    /\ [](\A i \in 1..Published : i # slotTag => Observed(i) = 1)
    /\ [][Len(seen') <= Len(seen) + 1]_vars

\* C2 amended: a tick takes at most one byte and no byte is returned by two
\* takes; a published byte that is no longer in the mailbox was returned by
\* exactly one take, unless a later publish overwrote it before any tick, and
\* then by none
C2_AtMostOnce ==
    /\ [](\A i \in 1..Published :
            Observed(i) = IF i \in overwritten \/ i = slotTag THEN 0 ELSE 1)
    /\ [][Len(seen') <= Len(seen) + 1]_vars

\* two bytes were published and each was taken by a tick of its own
C2_Witness ==
    /\ seen = <<1, 2>>
    /\ overwritten = {}
    /\ DISPLAY_CH = None

\* C3: a take leaves the slot empty; the first take after a publish returns
\* the byte, and a take with no publish since the take before returns none
C3_ReadAndClear ==
    [][Tick => /\ DISPLAY_CH' = None
               /\ (pending # << >> => input_ch' # None /\ input_ch' = DISPLAY_CH)
               /\ (pending = << >> => input_ch' = None)]_vars

\* a byte was published and taken, and the next take returned none
C3_Witness ==
    /\ rx # << >>
    /\ seen = <<1>>
    /\ pending = << >>
    /\ input_ch = None
    /\ DISPLAY_CH = None

\* ------------------------------------------------------------ claims: line editor

\* the byte last read has been handled and the loop waits for the next one
Handled == pc = "read" /\ rx # << >>

NonControl(b) == b # ENTER /\ b # BACKSPACE

AllNonControl(s) == \A i \in DOMAIN s : NonControl(s[i])

\* the bytes written since the last byte was read
Echo == SubSeq(tx, tx0 + 1, Len(tx))

\* C4: the buffer never holds more than CAP bytes; handling a non-control byte
\* below capacity adds one byte, a Backspace on a non-empty buffer removes one,
\* and Enter leaves the buffer empty
C4_LengthBounded ==
    /\ Len(buffer) <= CAP
    /\ Handled =>
        /\ (byte = ENTER => Len(buffer) = 0)
        /\ (byte = BACKSPACE /\ buf0 # << >> => Len(buffer) = Len(buf0) - 1)
        /\ (NonControl(byte) /\ Len(buf0) < CAP => Len(buffer) = Len(buf0) + 1)

\* a Backspace was handled on a full buffer
C4_Witness ==
    /\ Handled
    /\ byte = BACKSPACE
    /\ Len(buf0) = CAP
    /\ Len(buffer) = CAP - 1

\* C5: after CAP + 1 non-control bytes from an empty buffer the buffer holds
\* the first CAP of them, only those were echoed, and one diagnostic records
\* the rejected byte, the length and the capacity
C5_Overflow ==
    (Handled /\ Len(rx) = CAP + 1 /\ AllNonControl(rx)) =>
        /\ buffer = SubSeq(rx, 1, CAP)
        /\ tx = SubSeq(rx, 1, CAP)
        /\ diag = << [ch |-> rx[CAP + 1], len |-> CAP, max |-> 32] >>

\* CAP + 1 non-control bytes, not all equal, have been handled
C5_Witness ==
    /\ Handled
    /\ Len(rx) = CAP + 1
    /\ AllNonControl(rx)
    /\ rx[1] # rx[CAP + 1]
    /\ Len(buffer) = CAP
    /\ Len(diag) = 1

\* rx is n >= 1 non-control bytes (at most CAP), then Backspace, then Enter
EditLine ==
    /\ Len(rx) >= 3
    /\ Len(rx) <= CAP + 2
    /\ AllNonControl(SubSeq(rx, 1, Len(rx) - 2))
    /\ rx[Len(rx) - 1] = BACKSPACE
    /\ rx[Len(rx)] = ENTER

\* what C6 expects before the newline: the echoes, the erase sequence, the buffer
C6_Expected ==
    SubSeq(rx, 1, Len(rx) - 2) \o <<BACKSPACE, SPACE, BACKSPACE>> \o SubSeq(rx, 1, Len(rx) - 3)

\* C6 as stated: the echoes, the erase sequence, then at once the remaining
\* buffer contents, then nothing but newline bytes; the buffer ends empty
C6_EchoSequence_Original ==
    (Handled /\ EditLine) =>
        /\ buffer = << >>
        /\ Len(tx) > Len(C6_Expected)
        /\ SubSeq(tx, 1, Len(C6_Expected)) = C6_Expected
        /\ \A k \in (Len(C6_Expected) + 1)..Len(tx) : tx[k] \in {10, 13}

\* C6 amended: the echoes, the erase sequence, then on Enter "\r\n", the
\* remaining buffer contents in reverse order, '\n', '\r'; the buffer ends empty
C6_EchoSequence ==
    (Handled /\ EditLine) =>
        /\ buffer = << >>
        /\ tx = SubSeq(rx, 1, Len(rx) - 2) \o <<BACKSPACE, SPACE, BACKSPACE>>
                \o <<13, 10>> \o Reverse(SubSeq(rx, 1, Len(rx) - 3)) \o <<10, 13>>

\* 'A', 'B', 'A', Backspace, Enter have been handled
C6_Witness ==
    /\ Handled
    /\ rx = <<65, 66, 65, BACKSPACE, ENTER>>
    /\ buffer = << >>

\* C7: while and after a Backspace read on an empty buffer is handled, nothing
\* is written to the serial transport and the buffer stays empty
C7_BackspaceOnEmpty ==
    (rx # << >> /\ byte = BACKSPACE /\ buf0 = << >>) =>
        /\ Echo = << >>
        /\ wq = << >>
        /\ buffer = << >>

\* a Backspace on a buffer emptied by an earlier Backspace has been handled
C7_Witness ==
    /\ Handled
    /\ Len(rx) >= 3
    /\ rx[Len(rx) - 1] = BACKSPACE
    /\ byte = BACKSPACE
    /\ buf0 = << >>
    /\ tx # << >>

\* C8: after fewer than CAP bytes, none of them Enter or Backspace, the buffer
\* holds exactly the bytes typed, in order, and exactly those were echoed
C8_PrintableRun ==
    (pc = "read" /\ Len(rx) < CAP /\ AllNonControl(rx)) =>
        /\ Len(buffer) = Len(rx)
        /\ buffer = rx
        /\ tx = rx

\* CAP - 1 non-control bytes, not all equal, have been handled
C8_Witness ==
    /\ Handled
    /\ Len(rx) = CAP - 1
    /\ AllNonControl(rx)
    /\ rx[1] # rx[2]
    /\ buffer = rx

\* ------------------------------------------------------------ claims: animation

\* C9 as stated: the tick that takes a second strike of the same character
\* latches a blank frame, whether the first strike was adopted and is still
\* remembered or both strikes were published with no tick between them; with
\* no further input the next tick latches the glyph at brightness 9
C9_RepeatBlanks_Original ==
    /\ [](repeat \in {"remembered", "pending"} => image = BLANK_MATRIX)
    /\ [][Tick /\ repeat \in {"remembered", "pending"} /\ DISPLAY_CH = None
            => image' = ch_to_matrix(input_ch, 9)]_vars

\* C9 amended: the tick that takes a strike equal to the remembered character
\* latches a blank frame and keeps the character; with no further input the
\* next tick latches that character's glyph at brightness 9
C9_RepeatBlanks ==
    /\ [](repeat = "remembered" => image = BLANK_MATRIX /\ CH = input_ch /\ CH # None)
    /\ [][Tick /\ repeat = "remembered" /\ DISPLAY_CH = None
            => image' = ch_to_matrix(CH, 9) /\ brightness' = Some(9) /\ CH' = CH]_vars

\* a tick has just taken a second 'A' while 'A' was remembered
C9_Witness ==
    /\ repeat = "remembered"
    /\ rx = <<65, 65>>
    /\ seen = <<1, 2>>
    /\ CH = Some(65)
    /\ image = BLANK_MATRIX
    /\ STEP = MAX_STEP - 1

\* C10: every computed brightness is in 0..9, and across a tick that keeps
\* the remembered character and does not assign MAX_STEP to STEP the
\* brightness does not increase
C10_BrightnessFades ==
    /\ [](brightness # None => brightness[1] \in 0..9)
    /\ [][Tick /\ brightness # None /\ CH' = CH /\ ~stepReset'
            => brightness'[1] <= brightness[1]]_vars

\* a remembered character has faded below full brightness
C10_Witness ==
    /\ CH # None
    /\ brightness = Some(7)
    /\ ~stepReset
    /\ STEP = 6

\* ------------------------------------------------------------ claims: interrupts

\* C11: TIMER1 has strictly higher priority than RTC0: while the RTC0 handler
\* runs with interrupts enabled a pending TIMER1 can be dispatched at once,
\* and the RTC0 handler is never entered on top of the TIMER1 handler
C11_TimerOutranksRtc ==
    /\ (Running("RTC0") /\ ~primask /\ "TIMER1" \in irq) => CanDispatch("TIMER1")
    /\ \A i, j \in 1..Len(active) :
          (i < j /\ active[i] = "TIMER1") => active[j] # "RTC0"

\* TIMER1 is inside handle_display_event, RTC0 is inside display.show
Reading == tpc = "read"
Writing == rpc = "write"

\* C12: the display surface is written only inside RTC0's critical section and
\* read only inside TIMER1's: TIMER1 never reads while RTC0 is in the middle of
\* a frame, every row it reads belongs to the last fully written frame, and no
\* step of TIMER1 changes the mailbox, the remembered character or the step
C12_WholeFrames ==
    /\ [](/\ (Reading \/ Writing) => primask
          /\ ~(Reading /\ Writing)
          /\ ~Writing => image = latched
          /\ Reading => \A k \in 1..trow : shown[k] = latched[k])
    /\ [][TimerStep => UNCHANGED << DISPLAY_CH, CH, STEP >>]_vars

\* TIMER1 has read a whole glyph frame while the next RTC0 tick is pending
C12_Witness ==
    /\ Reading
    /\ trow = 5
    /\ shown = ch_to_matrix(CH, 9)
    /\ CH # None
    /\ "RTC0" \in irq

\* the mainline is inside nb::block!: serial.read, serial.write or serial.flush
Blocked == pc \in {"read", "write", "flush"}

\* C13: the mainline never blocks on the serial port inside a critical
\* section: whenever it is blocked interrupts are enabled, and under fair ticks
\* an RTC0 tick is served again and again, whatever the mainline does
C13_TicksServed ==
    /\ [](Blocked => ~primask)
    /\ []<><<Tick>>_vars

\* the mainline is blocked in the middle of an echo and a tick has taken the
\* byte it published
C13_Witness == pc = "write" /\ wq # << >> /\ seen = << 1 >> /\ ~primask

\* ------------------------------------------------------------ claims: glyph table

\* the characters that have an arm of their own
Supported == (65..90) \cup (97..122) \cup (48..57) \cup {ENTER, BACKSPACE, SPACE, 27}

IsMatrix(m) == Len(m) = 5 /\ \A r \in 1..5 : Len(m[r]) = 5

Lit(m) == {rc \in (1..5) \X (1..5) : m[rc[1]][rc[2]] # 0}

CellsIn(m, S) == \A r \in 1..5 : \A c \in 1..5 : m[r][c] \in S

\* C14: for a supported character ch_to_matrix returns a 5x5 matrix whose
\* every cell is 0 or the requested brightness; two calls with the same
\* arguments give the same matrix and two nonzero brightnesses light the same cells
C14_ZeroOrBrightness ==
    gch \in Supported =>
      /\ gimg # None => IsMatrix(gimg[1]) /\ CellsIn(gimg[1], {0, gb})
      /\ gimg2 # None => IsMatrix(gimg2[1]) /\ CellsIn(gimg2[1], {0, gb2})
      /\ (gimg # None /\ gimg2 # None /\ gb = gb2) => gimg = gimg2
      /\ (gimg # None /\ gimg2 # None /\ gb # 0 /\ gb2 # 0) => Lit(gimg[1]) = Lit(gimg2[1])

\* 'A' rendered at 9 and at 4: the same 14 cells are lit
C14_Witness ==
    /\ gch = 65 /\ gb = 9 /\ gb2 = 4
    /\ gimg # None /\ gimg2 # None
    /\ gimg[1][1] = << 0, 9, 9, 9, 0 >>
    /\ gimg2[1][1] = << 0, 4, 4, 4, 0 >>
    /\ Cardinality(Lit(gimg2[1])) = 14

\* C15 as stated: an unsupported byte gives the all-on matrix at full
\* brightness 9 whatever brightness was requested
C15_FullBrightness_Original ==
    (gch \notin Supported /\ gimg # None) => CellsIn(gimg[1], {9})

\* C15: an unsupported byte gives the all-on matrix at the requested
\* brightness: all 25 cells equal the brightness argument
C15_AllOnAtBrightness ==
    /\ (gch \notin Supported /\ gimg # None) => IsMatrix(gimg[1]) /\ CellsIn(gimg[1], {gb})
    /\ (gch \notin Supported /\ gimg2 # None) => IsMatrix(gimg2[1]) /\ CellsIn(gimg2[1], {gb2})

\* the byte 0x01 rendered at brightness 4
C15_Witness ==
    /\ gch = 1 /\ gb = 4
    /\ gimg # None
    /\ gimg[1] = Unknown(4)

\* ------------------------------------------------------------ claims: fade

\* a tick that finds the mailbox empty
QuietTick == Tick /\ DISPLAY_CH = None

\* C16: while a character is remembered the step is in MIN_STEP..MAX_STEP-1;
\* each tick without input counts it down by one and keeps the character until
\* the step is MIN_STEP, and the tick that starts at MIN_STEP clears the
\* character and latches a blank frame; an idle driver latches a blank frame
\* on every tick without input; under fair ticks a remembered character is
\* always eventually cleared, with a blank frame latched, unless a byte is published
C16_FadeLifecycle ==
    /\ [](CH # None => STEP \in MIN_STEP..(MAX_STEP - 1))
    /\ [][(QuietTick /\ CH # None /\ STEP > MIN_STEP)
            => STEP' = STEP - 1 /\ CH' = CH]_vars
    /\ [][(QuietTick /\ CH # None /\ STEP = MIN_STEP)
            => CH' = None /\ image' = BLANK_MATRIX]_vars
    /\ [][(QuietTick /\ CH = None) => CH' = None /\ image' = BLANK_MATRIX]_vars
    /\ (CH # None) ~> ((CH = None /\ image = BLANK_MATRIX) \/ DISPLAY_CH # None)

\* the only byte received was adopted and has faded out: the driver is idle again
C16_Witness ==
    /\ Len(rx) = 1
    /\ seen = << 1 >>
    /\ CH = None
    /\ input_ch = None
    /\ image = BLANK_MATRIX
    /\ low
    /\ STEP = MAX_STEP - 1

\* C17 as stated: the tick that takes a byte equal to the remembered character
\* latches a blank frame, keeps the character and only decrements the step
C17_RepeatKeepsStep_Original ==
    [][(Tick /\ DISPLAY_CH # None /\ DISPLAY_CH = CH)
         => image' = BLANK_MATRIX /\ CH' = CH /\ STEP' = STEP - 1]_vars

\* C17: the tick that takes a byte equal to the remembered character latches a
\* blank frame and keeps the character, and the step is restarted: it is
\* MAX_STEP - 1 after the tick whatever it was before
C17_RepeatRestartsStep ==
    [][(Tick /\ DISPLAY_CH # None /\ DISPLAY_CH = CH)
         => image' = BLANK_MATRIX /\ CH' = CH /\ STEP' = MAX_STEP - 1]_vars

\* a second 'B' was taken while 'B' was remembered: blank frame, step restarted
C17_Witness ==
    /\ repeat = "remembered"
    /\ rx = << 66, 66 >>
    /\ CH = Some(66)
    /\ input_ch = Some(66)
    /\ image = BLANK_MATRIX
    /\ stepReset
    /\ STEP = MAX_STEP - 1

\* C18 as stated: a tick that starts with STEP <= MIN_STEP restarts the step
\* and clears the remembered character before the glyph is selected, with or
\* without input, so a byte taken on that tick is adopted and rendered even
\* when it equals the character that was remembered
C18_ExpiryAlways_Original ==
    [][(Tick /\ STEP <= MIN_STEP)
         => /\ STEP' = MAX_STEP - 1
            /\ CH' = DISPLAY_CH
            /\ image' = ch_to_matrix(DISPLAY_CH, 9)]_vars

\* C18: a tick that starts with STEP <= MIN_STEP and takes no byte restarts
\* the step, clears the remembered character and latches a blank frame; when
\* it takes a byte the step is restarted by the take and the character is not
\* cleared: a byte equal to it is blanked as a repeat, another byte is adopted
C18_ExpiryWithoutInput ==
    /\ [][(Tick /\ STEP <= MIN_STEP /\ DISPLAY_CH = None)
            => STEP' = MAX_STEP - 1 /\ CH' = None /\ image' = BLANK_MATRIX]_vars
    /\ [][(Tick /\ STEP <= MIN_STEP /\ DISPLAY_CH # None /\ DISPLAY_CH = CH)
            => STEP' = MAX_STEP - 1 /\ CH' = CH /\ image' = BLANK_MATRIX]_vars
    /\ [][(Tick /\ STEP <= MIN_STEP /\ DISPLAY_CH # None /\ DISPLAY_CH # CH)
            => /\ STEP' = MAX_STEP - 1
               /\ CH' = DISPLAY_CH
               /\ image' = ch_to_matrix(DISPLAY_CH, 9)]_vars

\* the tick that started at MIN_STEP took a second 'A' while 'A' was
\* remembered: the character is kept and the frame is blank
C18_Witness ==
    /\ low
    /\ rx = << 65, 65 >>
    /\ seen = << 1, 2 >>
    /\ repeat = "remembered"
    /\ CH = Some(65)
    /\ image = BLANK_MATRIX

\* C19: a tick that takes a byte different from the remembered character
\* (or with nothing remembered) remembers that byte, latches its glyph at
\* brightness 9 and leaves the step at MAX_STEP - 1, whatever the step was
C19_AdoptsNewByte ==
    [][(Tick /\ DISPLAY_CH # None /\ DISPLAY_CH # CH)
         => /\ CH' = DISPLAY_CH
            /\ brightness' = Some(9)
            /\ image' = ch_to_matrix(DISPLAY_CH, 9)
            /\ STEP' = MAX_STEP - 1]_vars

\* 'B' was taken while 'A' was remembered and fading
C19_Witness ==
    /\ rx = << 65, 66 >>
    /\ seen = << 1, 2 >>
    /\ CH = Some(66)
    /\ input_ch = Some(66)
    /\ image = ch_to_matrix(Some(66), 9)
    /\ STEP = MAX_STEP - 1
    /\ repeat = "none"

\* the brightness of the tick that starts at `step`
Ramp(step) == IF step >= 9 THEN 9 ELSE step

\* C20 as stated: the last glyph frame before the blank reset frame has
\* brightness 1 or 0
C20_RampToZero_Original ==
    [][(Tick /\ CH # None /\ CH' = None) => brightness \in {Some(0), Some(1)}]_vars

\* C20: in a fade with no input the tick that starts at step s renders the
\* remembered character at brightness 9 while s >= 9 and at brightness s for
\* s = 8 down to MIN_STEP + 1; the last glyph frame before the blank reset
\* frame has brightness MIN_STEP + 1
C20_RampToMinStep ==
    /\ [][(QuietTick /\ CH # None /\ STEP > MIN_STEP)
            => /\ brightness' = Some(Ramp(STEP))
               /\ image' = ch_to_matrix(CH, Ramp(STEP))]_vars
    /\ [][(Tick /\ CH # None /\ CH' = None)
            => /\ brightness = Some(MIN_STEP + 1)
               /\ image = ch_to_matrix(CH, MIN_STEP + 1)
               /\ image' = BLANK_MATRIX]_vars

\* the last glyph frame of a fade: 'A' at brightness MIN_STEP + 1
C20_Witness ==
    /\ CH = Some(65)
    /\ DISPLAY_CH = None
    /\ STEP = MIN_STEP
    /\ brightness = Some(MIN_STEP + 1)
    /\ image = ch_to_matrix(Some(65), MIN_STEP + 1)

\* ------------------------------------------------------------ claims: step arithmetic

\* C21: the step stays in 0..MAX_STEP (in fact in MIN_STEP..MAX_STEP) and the
\* handler never panics: `*STEP -= 1` is applied to a step of at least 1, the
\* brightness match never takes its unreachable!() arm and every computed
\* brightness is in 0..9
C21_StepInRange ==
    /\ [](~panicked)
    /\ [](STEP \in 0..MAX_STEP /\ STEP >= MIN_STEP)
    /\ [](brightness # None => brightness[1] \in (MIN_STEP + 1)..9)
    /\ [][Tick => STEP' + 1 \in 1..MAX_STEP]_vars

\* an idle driver has counted the step down to MIN_STEP and restarted it
C21_Witness ==
    /\ low
    /\ rx = << >>
    /\ CH = None
    /\ brightness = Some(9)
    /\ STEP = MAX_STEP - 1
    /\ ~panicked

\* ------------------------------------------------------------ claims: Enter

\* the bytes written since the last byte was read
Written == SubSeq(tx, tx0 + 1, Len(tx))

\* C22: once an Enter read with b1..bn in the buffer (n >= 2) has been
\* handled, the bytes written for it hold bn..b1 in that order, followed by
\* the trailing '\n', '\r' and nothing else; the run is preceded by "\r\n"
C22_ReversedBeforeNewline ==
    (Handled /\ byte = ENTER /\ Len(buf0) >= 2) =>
        LET n == Len(buf0)
        IN /\ Len(Written) = n + 4
           /\ \A k \in 1..n : Written[2 + k] = buf0[n + 1 - k]
           /\ SubSeq(Written, n + 3, n + 4) = << 10, 13 >>
           /\ SubSeq(Written, 1, 2) = << 13, 10 >>

\* 'A', 'B', Enter have been handled: "AB" echoed, then "\r\n", "BA", "\n\r"
C22_Witness ==
    /\ Handled
    /\ rx = << 65, 66, ENTER >>
    /\ buf0 = << 65, 66 >>
    /\ tx = << 65, 66, 13, 10, 66, 65, 10, 13 >>

\* ------------------------------------------------------------ claims: mirroring

\* where the byte rx[i] is: in the mailbox, taken by a tick, overwritten
Fates(i) ==
    (IF slotTag = i THEN 1 ELSE 0) + Observed(i) + (IF i \in overwritten THEN 1 ELSE 0)

\* every byte read is stored in the mailbox once, before anything is written
\* for it, whatever the line editor then does with it
PublishedOnce ==
    /\ [](\A i \in 1..Len(rx) : Fates(i) = (IF i <= Published THEN 1 ELSE 0))
    /\ [](slotTag # 0 => DISPLAY_CH = Some(rx[slotTag]))
    /\ [](pc = "publish" => Len(tx) = tx0)
    /\ [][tx' # tx => Published = Len(rx) /\ Published' = Published]_vars
    /\ [][Published' # Published => Published' = Len(rx) /\ slotTag' = Len(rx)]_vars

\* C23 as stated: every byte read is published once and before its echo,
\* rejected bytes and a Backspace on an empty buffer included, and the tick
\* that finds a byte in the mailbox latches that byte's glyph
C23_MirroredAndShown_Original ==
    /\ PublishedOnce
    /\ [][(Tick /\ DISPLAY_CH # None) => image' = ch_to_matrix(DISPLAY_CH, 9)]_vars

\* C23: every byte read is published once and before its echo, rejected
\* bytes and a Backspace on an empty buffer included; the tick that finds a
\* byte in the mailbox takes it and remembers it, and latches its glyph at
\* brightness 9 unless it equals the remembered character, when it latches a
\* blank frame
C23_MirroredAndTaken ==
    /\ PublishedOnce
    /\ [][(Tick /\ DISPLAY_CH # None)
            => /\ input_ch' = DISPLAY_CH
               /\ seen' = Append(seen, slotTag)
               /\ CH' = DISPLAY_CH
               /\ image' = IF DISPLAY_CH = CH THEN BLANK_MATRIX
                                              ELSE ch_to_matrix(DISPLAY_CH, 9)]_vars

\* the byte read with the buffer at capacity was not pushed or echoed, and a
\* tick has taken it and latched its glyph
C23_Witness ==
    /\ Handled
    /\ Len(rx) = CAP + 1
    /\ Len(buf0) = CAP
    /\ buffer = buf0
    /\ Len(tx) = CAP
    /\ seen = << CAP + 1 >>
    /\ image = ch_to_matrix(Some(rx[CAP + 1]), 9)

\* ------------------------------------------------------------ claims: led-roulette

\* the k-th cell of the clockwise walk round the border that starts at (0,0)
Clock(k) ==
    IF k <= 4 THEN << k, 0 >>
    ELSE IF k <= 8 THEN << 4, k - 4 >>
    ELSE IF k <= 12 THEN << 12 - k, 4 >>
    ELSE << 0, 16 - k >>

Border == {c \in (0..4) \X (0..4) : c[1] \in {0, 4} \/ c[2] \in {0, 4}}

\* the cells of display_matrix that are 1
LitCells == {c \in (0..4) \X (0..4) : display_matrix[c[2] + 1][c[1] + 1] # 0}

\* C24: from (0,0) the position stays on the border of the 5x5 grid and after
\* k applications of next_xy it is the (k mod 16)-th cell of the clockwise
\* walk, so the 16 border cells are visited once each per lap and (0,0)
\* returns exactly every 16 steps; no index or subtraction faults; exactly the
\* cell (x, y) is 1 while the matrix is shown and every cell is 0 when the
\* next position is computed
C24_BorderWalk ==
    /\ ~rfault
    /\ InGrid(x, y)
    /\ << x, y >> \in Border
    /\ << x, y >> = Clock(steps % 16)
    /\ {Clock(k) : k \in 0..15} = Border /\ Cardinality(Border) = 16
    /\ (<< x, y >> = << 0, 0 >>) <=> (steps % 16 = 0)
    /\ lpc \in {"show", "clear"} => LitCells = {<< x, y >>} /\ display_matrix[y + 1][x + 1] = 1
    /\ lpc \in {"light", "next"} => LitCells = {}

\* one lap is done: the 16th application of next_xy gave (0,0), which is lit
C24_Witness ==
    /\ steps = 16
    /\ x = 0 /\ y = 0
    /\ lpc = "show"
    /\ display_matrix[1][1] = 1

====
